---- MODULE Spec2Model ----
(***************************************************************************)
(* A model of pardnchiu/go-logger: the Logger instance (New, Close, Flush, *)
(* rotate, Cleanup, checkAndRotate and the hourly rotation goroutine), the *)
(* leveled writers of writer.go, and the part of the file system they act  *)
(* on (directory entries, inodes, file descriptors).                       *)
(***************************************************************************)
EXTENDS Integers, Sequences, FiniteSets, TLC

\* ------------------------------------------------------------------ bounds
NumProcs == 2      \* caller goroutines
MaxOps == 2        \* operations each caller performs
MaxTicks == 1      \* expirations of the hourly timer
MaxSec == 1        \* seconds that pass one by one within an hour
MaxFaults == 1     \* failing system calls injected in one run
CfgMaxSize == 1    \* MaxSize of the runs: a file of more lines is rotated
CfgMaxBackup == 1  \* MaxBackup of the runs
RotOps == 6        \* calls of the one caller of the rotation runs
RotMaxBackup == 2  \* MaxBackup of the rotation runs
SeqOps == 2        \* calls of the one caller of the sequential runs

\* --------------------------------------------------------------- constants
defaultDebugName == "debug.log"
defaultOutputName == "output.log"
defaultErrorName == "error.log"
logDebug == "DEBUG"
logTrace == "TRACE"
logInfo == "INFO"
logNotice == "NOTICE"
logWarning == "WARNING"
logError == "ERROR"
logFatal == "FATAL"
logCritical == "CRITICAL"

DefaultMaxSize == 16777216
DefaultMaxBackup == 5
DefaultPath == "./logs"
DefaultType == "text"

\* The order in which init opens the files and a tick checks them.
files == <<defaultDebugName, defaultOutputName, defaultErrorName>>
Cats == {defaultDebugName, defaultOutputName, defaultErrorName}

Procs == 1..NumProcs
Timer == 0                 \* the rotation goroutine, as an actor id
Hour == 3600               \* 1 * time.Hour, in seconds
NoOwner == -1

\* ------------------------------------------------------------ sequences
Last(s) == s[Len(s)]

\* A Go string is a sequence of one-character strings.
Digits == {"0", "1", "2", "3", "4", "5", "6", "7", "8", "9"}
DigitOf(n) == CASE n = 0 -> "0" [] n = 1 -> "1" [] n = 2 -> "2" [] n = 3 -> "3"
                [] n = 4 -> "4" [] n = 5 -> "5" [] n = 6 -> "6" [] n = 7 -> "7"
                [] n = 8 -> "8" [] n = 9 -> "9"
\* n printed in exactly w decimal digits (n < 10^w).
RECURSIVE Pad(_, _)
Pad(n, w) == IF w = 0 THEN <<>> ELSE Pad(n \div 10, w - 1) \o <<DigitOf(n % 10)>>

\* ------------------------------------------------------------ file names
\* A directory entry name: base "output.log" with suffix <<>> is the active
\* file, base with a non-empty suffix s is the name base + "." + s.
Name(base, suffix) == [base |-> base, suffix |-> suffix]
ActiveName(filename) == Name(filename, <<>>)

\* time.Now().Format("20060102_150405") of second t of the modelled day.
BaseDate == 20260101
Format(t) ==
    Pad(BaseDate + (t \div 86400), 8) \o <<"_">>
        \o Pad((t \div 3600) % 24, 2) \o Pad((t \div 60) % 60, 2) \o Pad(t % 60, 2)

BackupPatternAnySuffix(base, n) == n.base = base /\ n.suffix # <<>>
\* regexp ^QuoteMeta(base)\.\d{8}_\d{6}$ applied to a directory entry.
BackupPattern(base, n) ==
    /\ n.base = base
    /\ Len(n.suffix) = 15
    /\ \A i \in 1..8 : n.suffix[i] \in Digits
    /\ n.suffix[9] = "_"
    /\ \A i \in 10..15 : n.suffix[i] \in Digits

\* ----------------------------------------------------------- file system
\* f.dir : directory entry name -> inode; f.ino : the inodes (data: the
\* lines, one size unit each; mtime; born: the name it was created under);
\* f.fd : the descriptors ever opened.
EmptyFs == [dir |-> <<>>, ino |-> <<>>, fd |-> <<>>]
Exists(f, n) == n \in DOMAIN f.dir
Size(f, i) == Len(f.ino[i].data)
MaxOf(S) == CHOOSE x \in S : \A y \in S : y <= x
\* The modification time the next create or write stamps.
NextMtime(f) == IF f.ino = <<>> THEN 1 ELSE 1 + MaxOf({f.ino[i].mtime : i \in 1..Len(f.ino)})

RenameNoReplace(f, old, new) ==
    IF new \in DOMAIN f.dir THEN f
    ELSE [f EXCEPT !.dir = [n \in (DOMAIN f.dir \ {old}) \cup {new} |->
                               IF n = new THEN f.dir[old] ELSE f.dir[n]]]
\* os.Rename: the entry new now names old's inode, replacing what it named.
Rename(f, old, new) ==
    [f EXCEPT !.dir = [n \in (DOMAIN f.dir \ {old}) \cup {new} |->
                          IF n = new THEN f.dir[old] ELSE f.dir[n]]]
\* os.Remove
Remove(f, n) == [f EXCEPT !.dir = [m \in DOMAIN f.dir \ {n} |-> f.dir[m]]]
\* os.OpenFile(O_CREATE|O_WRONLY|O_APPEND): the new descriptor is Len(fd).
OpenFile(f, n) ==
    LET i == IF Exists(f, n) THEN f.dir[n] ELSE Len(f.ino) + 1
        inodes == IF Exists(f, n) THEN f.ino
                  ELSE Append(f.ino, [data |-> <<>>, mtime |-> NextMtime(f), born |-> n])
        d == IF Exists(f, n) THEN f.dir
             ELSE [m \in DOMAIN f.dir \cup {n} |-> IF m = n THEN i ELSE f.dir[m]]
    IN [dir |-> d, ino |-> inodes, fd |-> Append(f.fd, [ino |-> i, open |-> TRUE])]
IsOpen(f, h) == h \in 1..Len(f.fd) /\ f.fd[h].open
\* (*os.File).Close: an error on a descriptor that is already closed.
CloseFd(f, h) == IF IsOpen(f, h) THEN [f EXCEPT !.fd[h].open = FALSE] ELSE f
WriteFdOverwrite(f, h, line) ==
    IF IsOpen(f, h)
    THEN [f EXCEPT !.ino[f.fd[h].ino] =
             [@ EXCEPT !.data = IF @ = <<>> THEN <<line>> ELSE [@ EXCEPT ![Len(@)] = line],
                       !.mtime = NextMtime(f)]]
    ELSE f
\* (*os.File).Write in append mode: the line lands at the end of the inode,
\* whatever name the inode has now; a closed descriptor writes nothing.
WriteFd(f, h, line) ==
    IF IsOpen(f, h)
    THEN [f EXCEPT !.ino[f.fd[h].ino] =
             [@ EXCEPT !.data = Append(@, line), !.mtime = NextMtime(f)]]
    ELSE f

\* ------------------------------------------------- injected system faults
\* Which system call of one step fails: MkdirAll, rename, open, ReadDir, or the
\* remove-th os.Remove of a Cleanup (0: none).
NoFault ==
    [mkdir |-> FALSE, rename |-> FALSE, open |-> FALSE, readdir |-> FALSE, remove |-> 0]
FaultSet ==
    {NoFault, [NoFault EXCEPT !.mkdir = TRUE],
     [NoFault EXCEPT !.rename = TRUE], [NoFault EXCEPT !.open = TRUE],
     [NoFault EXCEPT !.readdir = TRUE], [NoFault EXCEPT !.remove = 1],
     [NoFault EXCEPT !.remove = 2]}

\* ------------------------------------------------------ Cleanup, rotate
SortOldestFirst(f, S) ==
    LET older(x, y) == f.ino[f.dir[x]].mtime < f.ino[f.dir[y]].mtime
        rank(x) == 1 + Cardinality({y \in S : older(y, x)})
    IN [i \in 1..Cardinality(S) |-> CHOOSE x \in S : rank(x) = i]
\* sort.Slice by modTime.After: newest first (modification times differ).
RECURSIVE SortNewestFirst(_, _)
SortNewestFirst(f, S) ==
    IF S = {} THEN <<>>
    ELSE LET n == CHOOSE x \in S : \A y \in S : f.ino[f.dir[y]].mtime <= f.ino[f.dir[x]].mtime
         IN <<n>> \o SortNewestFirst(f, S \ {n})

RECURSIVE RemoveLoopSkipFailed(_, _, _, _)
RemoveLoopSkipFailed(f, bs, i, k) ==
    IF i > Len(bs) THEN [fs |-> f, err |-> FALSE, panic |-> FALSE]
    ELSE IF k = 1 THEN [RemoveLoopSkipFailed(f, bs, i + 1, 0) EXCEPT !.err = TRUE]
    ELSE RemoveLoopSkipFailed(Remove(f, bs[i]), bs, i + 1, IF k = 0 THEN 0 ELSE k - 1)
\* for i := MaxBackup; i < len(backupFiles); i++ { os.Remove(...) }, bs
\* 1-based: entry i is backupFiles[i-1]; k: which removal fails (0: none).
RECURSIVE RemoveLoop(_, _, _, _)
RemoveLoop(f, bs, i, k) ==
    IF i > Len(bs) THEN [fs |-> f, err |-> FALSE, panic |-> FALSE]
    ELSE IF k = 1 THEN [fs |-> f, err |-> TRUE, panic |-> FALSE]
    ELSE RemoveLoop(Remove(f, bs[i]), bs, i + 1, IF k = 0 THEN 0 ELSE k - 1)

CleanupRemovesNewest(cfg, f, path, flt) ==
    IF flt.readdir THEN [fs |-> f, err |-> TRUE, panic |-> FALSE]
    ELSE LET backupFiles ==
                 SortNewestFirst(f, {n \in DOMAIN f.dir : BackupPattern(path, n)})
         IN IF Len(backupFiles) > cfg.MaxBackup
            THEN IF cfg.MaxBackup < 0
                 THEN [fs |-> f, err |-> FALSE, panic |-> TRUE]
                 ELSE RemoveLoop(f, SubSeq(backupFiles, 1, Len(backupFiles) - cfg.MaxBackup),
                                 1, flt.remove)
            ELSE [fs |-> f, err |-> FALSE, panic |-> FALSE]
\* Cleanup(path): the backups of path, newest first; those after the first
\* MaxBackup are removed, stopping at the first removal that fails.
Cleanup(cfg, f, path, flt) ==
    IF flt.readdir THEN [fs |-> f, err |-> TRUE, panic |-> FALSE]
    ELSE LET backupFiles ==
                 SortNewestFirst(f, {n \in DOMAIN f.dir : BackupPattern(path, n)})
         IN IF Len(backupFiles) > cfg.MaxBackup
            THEN IF cfg.MaxBackup < 0
                 THEN [fs |-> f, err |-> FALSE, panic |-> TRUE]  \* index out of range
                 ELSE RemoveLoop(f, backupFiles, cfg.MaxBackup + 1, flt.remove)
            ELSE [fs |-> f, err |-> FALSE, panic |-> FALSE]

rotatePruneFatal(cfg, f, path, t, flt) ==
    LET backupPath == Name(path, Format(t))
    IN IF flt.rename \/ ~Exists(f, ActiveName(path))
       THEN [ok |-> FALSE, fs |-> f, panic |-> FALSE]
       ELSE LET c == Cleanup(cfg, Rename(f, ActiveName(path), backupPath), path, flt)
            IN [ok |-> ~c.err, fs |-> c.fs, panic |-> c.panic]
\* rotate at second t: rename to path.<timestamp>, then Cleanup, whose error
\* is only printed.
rotate(cfg, f, path, t, flt) ==
    LET backupPath == Name(path, Format(t))
    IN IF flt.rename \/ ~Exists(f, ActiveName(path))
       THEN [ok |-> FALSE, fs |-> f, panic |-> FALSE]
       ELSE LET c == Cleanup(cfg, Rename(f, ActiveName(path), backupPath), path, flt)
            IN [ok |-> TRUE, fs |-> c.fs, panic |-> c.panic]

mustRotateAtLimit(cfg, f, size) == size >= cfg.MaxSize
\* info.Size() > l.Config.MaxSize, in open and in checkAndRotate.
mustRotate(cfg, f, size) == size > cfg.MaxSize

openWithoutRotate(cfg, f, filename, t, flt) ==
    IF flt.open THEN [ok |-> FALSE, fs |-> f, fd |-> 0, panic |-> FALSE]
    ELSE LET g == OpenFile(f, ActiveName(filename))
         IN [ok |-> TRUE, fs |-> g, fd |-> Len(g.fd), panic |-> FALSE]
\* open: rotate an existing file larger than MaxSize, then open (creating).
\* fd is the descriptor returned (0 with an error).
open(cfg, f, filename, t, flt) ==
    LET n == ActiveName(filename)
        big == Exists(f, n) /\ mustRotate(cfg, f, Size(f, f.dir[n]))
        r == IF big THEN rotate(cfg, f, filename, t, flt)
             ELSE [ok |-> TRUE, fs |-> f, panic |-> FALSE]
    IN IF ~r.ok \/ r.panic THEN [ok |-> FALSE, fs |-> r.fs, fd |-> 0, panic |-> r.panic]
       ELSE IF flt.open THEN [ok |-> FALSE, fs |-> r.fs, fd |-> 0, panic |-> FALSE]
       ELSE LET g == OpenFile(r.fs, n)
            IN [ok |-> TRUE, fs |-> g, fd |-> Len(g.fd), panic |-> FALSE]

\* ------------------------------------------------------------------ state
VARIABLES
    variant,    \* which writeToLog is built: "writer" (writer.go, no check
                \* before the write) or "precheck" (checkAndRotate first)
    menu,       \* the calls a caller may make in this run
    disk0,      \* the directory as New found it
    Config,     \* l.Config after New applied the defaults
    life,       \* "unborn" before New, then "open" (New returned the logger)
                \* or "failed" (New returned an error)
    IsClose,    \* l.IsClose
    File,       \* l.File: filename -> descriptor
    Handler,    \* filename -> the descriptor its *log.Logger writes to
    stopTimer,  \* l.stopTimer: "nil", "open" or "closed"
    timer,      \* l.timer: armed (will expire), C (a tick waits in timer.C)
    ticks,      \* expirations so far
    Mutex,      \* l.Mutex: w the exclusive holder, r the shared holders
    fs,         \* the file system
    now,        \* the wall clock, in seconds
    console,    \* what reached os.Stdout and os.Stderr
    pc,         \* per caller: where it is in its operation
    op,         \* per caller: the operation in progress
    quota,      \* per caller: how many operations it performs in this run
    done,       \* per caller: operations completed
    last,       \* per caller: the outcome of its last completed operation
    tpc,        \* the rotation goroutine: "off", "select", "tick", "exited"
    rot,        \* per actor: the checkAndRotate in progress
    faults,     \* system faults still to inject
    panicked    \* a goroutine panicked: the process is gone

vars == <<variant, menu, disk0, Config, life, IsClose, File, Handler, stopTimer,
          timer, ticks, Mutex, fs, now, console, pc, op, quota, done, last, tpc,
          rot, faults, panicked>>

Actors == Procs \cup {Timer}
NoRot == [stage |-> "none", cat |-> "", old |-> 0, new |-> 0]
NoOp == [kind |-> "none"]
NoLast == [kind |-> "none"]

\* -------------------------------------------------------------------- New
\* A *Log as the caller passes it; Nil is the nil pointer.
Nil == [nil |-> TRUE]
Log(path, stdout, maxSize, maxBackup, type) ==
    [Path |-> path, Stdout |-> stdout, MaxSize |-> maxSize,
     MaxBackup |-> maxBackup, Type |-> type]

ApplyDefaultsNilOnly(config) ==
    IF config = Nil
    THEN Log(DefaultPath, FALSE, DefaultMaxSize, DefaultMaxBackup, DefaultType)
    ELSE config
\* New, lines 15-34: the effective configuration.
ApplyDefaults(config) ==
    LET c0 == IF config = Nil
              THEN Log(DefaultPath, FALSE, DefaultMaxSize, DefaultMaxBackup, "")
              ELSE config
        c1 == IF c0.Path = "" THEN [c0 EXCEPT !.Path = DefaultPath] ELSE c0
        c2 == IF c1.MaxSize = 0 THEN [c1 EXCEPT !.MaxSize = DefaultMaxSize] ELSE c1
        c3 == IF c2.MaxBackup = 0 THEN [c2 EXCEPT !.MaxBackup = DefaultMaxBackup] ELSE c2
    IN IF c3.Type = "" THEN [c3 EXCEPT !.Type = DefaultType] ELSE c3

\* init's loop from file i on; the fault flt strikes while file fi is opened.
RECURSIVE InitFiles(_, _, _, _, _, _, _)
InitFiles(cfg, f, F, i, t, fi, flt) ==
    IF i > Len(files) THEN [ok |-> TRUE, fs |-> f, File |-> F, panic |-> FALSE]
    ELSE LET r == open(cfg, f, files[i], t, IF i = fi THEN flt ELSE NoFault)
         IN IF ~r.ok THEN [ok |-> FALSE, fs |-> r.fs, File |-> F, panic |-> r.panic]
            ELSE InitFiles(cfg, r.fs,
                           [c \in DOMAIN F \cup {files[i]} |->
                               IF c = files[i] THEN r.fd ELSE F[c]],
                           i + 1, t, fi, flt)

\* initHandler: every handler is rebuilt on the descriptor l.File holds for
\* its file (0, the nil *os.File, when the map has none).
initHandler(F) == [c \in Cats |-> IF c \in DOMAIN F THEN F[c] ELSE 0]

CloseAllSkipped(f, F, S) == f
CloseAllStopOnError(f, F, S) ==
    IF \E c \in S : ~IsOpen(f, F[c]) THEN f
    ELSE [f EXCEPT !.fd = [h \in 1..Len(f.fd) |->
                              IF \E c \in S : F[c] = h
                              THEN [f.fd[h] EXCEPT !.open = FALSE] ELSE f.fd[h]]]
\* The loop of Close over l.File: every descriptor is closed; errs are the
\* files whose Close returned an error.
RECURSIVE CloseAll(_, _, _)
CloseAll(f, F, S) ==
    IF S = {} THEN f
    ELSE LET c == CHOOSE x \in S : TRUE IN CloseAll(CloseFd(f, F[c]), F, S \ {c})
CloseErrs(f, F) == {c \in DOMAIN F : ~IsOpen(f, F[c])}

\* ---------------------------------------------------------------- values
\* A message part (an `any`): a string or an int.
StrPart(chars) == [tag |-> "string", s |-> chars, n |-> 0]
IntPart(n) == [tag |-> "int", s |-> <<>>, n |-> n]
RECURSIVE Decimal(_)
Decimal(n) == IF n < 10 THEN <<DigitOf(n)>> ELSE Decimal(n \div 10) \o <<DigitOf(n % 10)>>
\* fmt.Sprintf("%v", m)
Sprintv(m) == IF m.tag = "int" THEN Decimal(m.n) ELSE m.s
\* the %s verb of Printf applied to m
Sprints(m) ==
    IF m.tag = "int"
    THEN <<"%", "!", "s", "(", "i", "n", "t", "=">> \o Decimal(m.n) \o <<")">>
    ELSE m.s
\* An error argument: nil, or an error with the text err.Error().
NilErr == [nil |-> TRUE, text |-> <<>>]
Err(chars) == [nil |-> FALSE, text |-> chars]

\* strings.Join(strs, sep)
RECURSIVE Join(_, _)
Join(strs, sep) ==
    IF strs = <<>> THEN <<>>
    ELSE IF Len(strs) = 1 THEN strs[1]
    ELSE strs[1] \o sep \o Join(Tail(strs), sep)

\* The level names as the characters that are printed.
Chars(level) ==
    CASE level = logDebug -> <<"D", "E", "B", "U", "G">>
      [] level = logTrace -> <<"T", "R", "A", "C", "E">>
      [] level = logInfo -> <<"I", "N", "F", "O">>
      [] level = logNotice -> <<"N", "O", "T", "I", "C", "E">>
      [] level = logWarning -> <<"W", "A", "R", "N", "I", "N", "G">>
      [] level = logError -> <<"E", "R", "R", "O", "R">>
      [] level = logFatal -> <<"F", "A", "T", "A", "L">>
      [] level = logCritical -> <<"C", "R", "I", "T", "I", "C", "A", "L">>

\* ------------------------------------------------------ the leveled calls
Methods ==
    {"Debug", "Trace", "Info", "Notice", "Warn", "WarnError", "Error", "Fatal", "Critical"}
ErrorMethods == {"WarnError", "Error", "Fatal", "Critical"}
\* the level each method passes to writeToLog
MethodLevel(m) ==
    CASE m = "Debug" -> logDebug [] m = "Trace" -> logTrace [] m = "Info" -> logInfo
      [] m = "Notice" -> logNotice [] m = "Warn" -> logWarning
      [] m = "WarnError" -> logWarning [] m = "Error" -> logError
      [] m = "Fatal" -> logFatal [] m = "Critical" -> logCritical
MethodFileWarnAsError(m) ==
    CASE m \in {"Debug", "Trace"} -> defaultDebugName
      [] m \in {"Info", "Notice"} -> defaultOutputName
      [] OTHER -> defaultErrorName
\* the file name each method passes to writeToLog (and whose handler it takes)
MethodFile(m) ==
    CASE m \in {"Debug", "Trace"} -> defaultDebugName
      [] m \in {"Info", "Notice", "Warn"} -> defaultOutputName
      [] m \in ErrorMethods -> defaultErrorName
\* writeToLog's level check
isValid(level) ==
    level \in {logDebug, logTrace, logInfo, logNotice, logWarning, logError,
               logFatal, logCritical}

AppendErrDropped(err, messages) == messages
\* if err != nil { messages = append(messages, err.Error()) }
AppendErr(err, messages) ==
    IF err.nil THEN messages ELSE Append(messages, StrPart(err.text))
\* fmt.Errorf("%s", strings.Join(strMessages, " ")): the returned error's text
ErrorText(messages) ==
    Join([i \in 1..Len(messages) |-> Sprintv(messages[i])], <<" ">>)

\* An entry of the call menu.
LogCall(m, parts, err) == [kind |-> "log", method |-> m, parts |-> parts, err |-> err]
CloseCall == [kind |-> "Close", method |-> "", parts |-> <<>>, err |-> NilErr]
FlushCall == [kind |-> "Flush", method |-> "", parts |-> <<>>, err |-> NilErr]

CleanupCallOf(path) ==
    [kind |-> "Cleanup", method |-> "", parts |-> <<>>, err |-> NilErr, path |-> path]
\* ------------------------------------------------------------- formatting
\* The glyphs of the tree: "|-- " stands for the branch, "+-- " for the corner.
Branch == <<"|", "-", "-", " ">>
Corner == <<"+", "-", "-", " ">>
\* prefix := "" for INFO, "[LEVEL] " otherwise
Prefix(level) == IF level # logInfo THEN <<"[">> \o Chars(level) \o <<"]", " ">> ELSE <<>>
TextLineBranchFirst(level, messages, i) ==
    IF i = 1 THEN Prefix(level) \o Sprints(messages[1])
    ELSE IF i < Len(messages) + 1 THEN Branch \o Sprints(messages[i])
    ELSE Corner \o Sprints(messages[i])
\* The i-th Printf of the tree loop (i from 1), without the time header.
TextLine(level, messages, i) ==
    IF i = 1 THEN Prefix(level) \o Sprints(messages[1])
    ELSE IF i = Len(messages) THEN Corner \o Sprints(messages[i])
    ELSE Branch \o Sprints(messages[i])

\* The record slog's JSON handler writes, as its key/value pairs in order
\* (the time pair left out): slog's own level, msg, the attributes.
Pair(k, v) == <<k, v>>
SlogLevel(level) ==
    CASE level = logDebug -> <<"D", "E", "B", "U", "G">>
      [] level \in {logTrace, logInfo, logNotice} -> <<"I", "N", "F", "O">>
      [] level = logWarning -> <<"W", "A", "R", "N">>
      [] level \in {logError, logFatal, logCritical} -> <<"E", "R", "R", "O", "R">>
LevelKey == <<"l", "e", "v", "e", "l">>
JsonRecordUntagged(level, messages) ==
    LET attrs == [i \in 1..(Len(messages) - 1) |->
                     Pair(<<"m", "s", "g">> \o Decimal(i), Sprintv(messages[i + 1]))]
    IN <<Pair(LevelKey, SlogLevel(level)), Pair(<<"m", "s", "g">>, Sprintv(messages[1]))>>
           \o attrs
JsonRecordFromZero(level, messages) ==
    LET attrs == [i \in 1..(Len(messages) - 1) |->
                     Pair(<<"m", "s", "g">> \o Decimal(i - 1), Sprintv(messages[i + 1]))]
        extra == IF level \in {logTrace, logNotice, logFatal, logCritical}
                 THEN <<Pair(LevelKey, Chars(level))>> ELSE <<>>
    IN <<Pair(LevelKey, SlogLevel(level)), Pair(<<"m", "s", "g">>, Sprintv(messages[1]))>>
           \o attrs \o extra
JsonRecord(level, messages) ==
    LET attrs == [i \in 1..(Len(messages) - 1) |->
                     Pair(<<"m", "s", "g">> \o Decimal(i), Sprintv(messages[i + 1]))]
        extra == IF level \in {logTrace, logNotice, logFatal, logCritical}
                 THEN <<Pair(LevelKey, Chars(level))>> ELSE <<>>
    IN <<Pair(LevelKey, SlogLevel(level)), Pair(<<"m", "s", "g">>, Sprintv(messages[1]))>>
           \o attrs \o extra

\* How many writes a call makes, and the k-th of them.
Writes(cfg, messages) == IF cfg.Type = "json" THEN 1 ELSE Len(messages)
Line(cfg, level, messages, k) ==
    IF cfg.Type = "json" THEN JsonRecord(level, messages) ELSE TextLine(level, messages, k)

\* ------------------------------------------------------------------- Init
Unlocked == [w |-> NoOwner, r |-> {}]
\* The state before New is called: the caller's *Log is in Config, the
\* directory holds d.
InitWith(variants, configs, disks, menus, quotas, nfaults) ==
    /\ variant \in variants
    /\ Config \in configs
    /\ disk0 \in disks
    /\ fs = disk0
    /\ menu \in menus
    /\ quota \in quotas
    /\ faults = nfaults
    /\ life = "unborn"
    /\ IsClose = FALSE
    /\ File = <<>>
    /\ Handler = [c \in Cats |-> 0]
    /\ stopTimer = "nil"
    /\ timer = [armed |-> FALSE, C |-> FALSE, idx |-> 0, due |-> 0]
    /\ ticks = 0
    /\ Mutex = Unlocked
    /\ now = 0
    /\ console = [stdout |-> <<>>, stderr |-> <<>>]
    /\ pc = [t \in Procs |-> "idle"]
    /\ op = [t \in Procs |-> NoOp]
    /\ done = [t \in Procs |-> 0]
    /\ last = [t \in Procs |-> NoLast]
    /\ tpc = "off"
    /\ rot = [a \in Actors |-> NoRot]
    /\ panicked = FALSE

\* A fault is injected only where it changes the outcome of the step.
Inject(flt, changes) ==
    /\ flt = NoFault \/ (faults > 0 /\ changes)
    /\ faults' = IF flt = NoFault THEN faults ELSE faults - 1

\* -------------------------------------------------------------------- New
\* os.MkdirAll fails: New returns the error, no logger exists.
NewMkdirFails ==
    /\ life = "unborn" /\ ~panicked /\ faults > 0
    /\ life' = "failed"
    /\ faults' = faults - 1
    /\ Config' = ApplyDefaults(Config)
    /\ UNCHANGED <<variant, menu, quota, disk0, IsClose, File, Handler, stopTimer, timer,
                   ticks, Mutex, fs, now, console, pc, op, done, last, tpc, rot,
                   panicked>>

\* New from the logger literal on: init, then either Close and the error,
\* or startRotateTimer and the logger.
New ==
    /\ life = "unborn" /\ ~panicked
    /\ \E fi \in 0..Len(files), flt \in FaultSet :
          LET cfg == ApplyDefaults(Config)
              r == InitFiles(cfg, fs, <<>>, 1, now, fi, flt)
          IN /\ (fi = 0) = (flt = NoFault)
             /\ Inject(flt, r # InitFiles(cfg, fs, <<>>, 1, now, 0, NoFault))
             /\ Config' = cfg
             /\ File' = r.File
             /\ panicked' = r.panic
             /\ IF r.ok
                THEN /\ fs' = r.fs
                     /\ Handler' = initHandler(r.File)
                     /\ stopTimer' = "open"
                     /\ timer' = [armed |-> TRUE, C |-> FALSE, idx |-> 0, due |-> now + Hour]
                     /\ tpc' = "select"
                     /\ life' = "open"
                     /\ UNCHANGED IsClose
                ELSE /\ fs' = CloseAll(r.fs, r.File, DOMAIN r.File)
                     /\ IsClose' = TRUE
                     /\ life' = "failed"
                     /\ UNCHANGED <<Handler, stopTimer, timer, tpc>>
    /\ UNCHANGED <<variant, menu, quota, disk0, ticks, Mutex, now, console, pc, op, done,
                   last, rot>>

\* --------------------------------------------------------- checkAndRotate
\* Lines 192-202: the lookup in l.File, oldFile.Stat() (an error on a closed
\* descriptor) and the comparison with MaxSize.
checkSize(cfg, F, f, filename) ==
    IF filename \notin DOMAIN F THEN "error"
    ELSE IF ~IsOpen(f, F[filename]) THEN "error"
    ELSE IF mustRotate(cfg, f, Size(f, f.fd[F[filename]].ino)) THEN "rotate"
    ELSE "keep"

\* What the actor does when its checkAndRotate has returned.
Running == life = "open" /\ ~panicked
RotReturn(a) ==
    /\ rot' = [rot EXCEPT ![a] = NoRot]
    /\ IF a = Timer
       THEN /\ IF timer.idx = Len(files)
               THEN /\ tpc' = "select"     \* l.timer.Reset(1 * time.Hour)
                    /\ timer' = [timer EXCEPT !.armed = TRUE, !.idx = 0,
                                                !.due = now + Hour]
               ELSE /\ timer' = [timer EXCEPT !.idx = @ + 1]
                    /\ UNCHANGED tpc
            /\ UNCHANGED pc
       ELSE /\ pc' = [pc EXCEPT ![a] = "write"]
            /\ UNCHANGED <<timer, tpc>>

\* Line 203: oldFile.Close(), on the descriptor read from l.File at line 192;
\* its error is not looked at.
RotClose(a) ==
    /\ Running /\ rot[a].stage = "close"
    /\ fs' = CloseFd(fs, rot[a].old)
    /\ rot' = [rot EXCEPT ![a].stage = "rotate"]
    /\ UNCHANGED <<variant, menu, quota, disk0, Config, life, IsClose, File, Handler,
                   stopTimer, timer, ticks, Mutex, now, console, pc, op, done, last,
                   tpc, faults, panicked>>

\* Lines 205-208: rotate(path).
RotRotate(a) ==
    /\ Running /\ rot[a].stage = "rotate"
    /\ \E flt \in FaultSet :
          LET r == rotate(Config, fs, rot[a].cat, now, flt)
          IN /\ Inject(flt, r # rotate(Config, fs, rot[a].cat, now, NoFault))
             /\ fs' = r.fs
             /\ panicked' = r.panic
             /\ IF r.ok
                THEN /\ rot' = [rot EXCEPT ![a].stage = "open"]
                     /\ UNCHANGED <<timer, tpc, pc>>
                ELSE RotReturn(a)
    /\ UNCHANGED <<variant, menu, quota, disk0, Config, life, IsClose, File, Handler,
                   stopTimer, ticks, Mutex, now, console, op, done, last>>

\* Lines 210-213: newFile, err := l.open(filename, 0644)
RotOpen(a) ==
    /\ Running /\ rot[a].stage = "open"
    /\ \E flt \in FaultSet :
          LET r == open(Config, fs, rot[a].cat, now, flt)
          IN /\ Inject(flt, r # open(Config, fs, rot[a].cat, now, NoFault))
             /\ fs' = r.fs
             /\ panicked' = r.panic
             /\ IF r.ok
                THEN /\ rot' = [rot EXCEPT ![a].stage = "assign", ![a].new = r.fd]
                     /\ UNCHANGED <<timer, tpc, pc>>
                ELSE RotReturn(a)
    /\ UNCHANGED <<variant, menu, quota, disk0, Config, life, IsClose, File, Handler,
                   stopTimer, ticks, Mutex, now, console, op, done, last>>

\* Lines 215-219: l.File[filename] = newFile; l.initHandler()
RotAssign(a) ==
    /\ Running /\ rot[a].stage = "assign"
    /\ LET F == [c \in DOMAIN File \cup {rot[a].cat} |->
                    IF c = rot[a].cat THEN rot[a].new ELSE File[c]]
       IN /\ File' = F
          /\ Handler' = initHandler(F)
    /\ RotReturn(a)
    /\ UNCHANGED <<variant, menu, quota, disk0, Config, life, IsClose, stopTimer, ticks,
                   Mutex, fs, now, console, op, done, last, faults, panicked>>

\* ---------------------------------------------------- the rotation timer
\* The hour is over: the runtime sends on timer.C.
TimerExpire ==
    /\ Running /\ timer.armed /\ ticks < MaxTicks
    /\ timer' = [timer EXCEPT !.armed = FALSE, !.C = TRUE]
    /\ ticks' = ticks + 1
    /\ now' = IF now < timer.due THEN timer.due ELSE now
    /\ UNCHANGED <<variant, menu, quota, disk0, Config, life, IsClose, File, Handler,
                   stopTimer, Mutex, fs, console, pc, op, done, last, tpc, rot,
                   faults, panicked>>

\* case <-l.timer.C: the checks of the three files begin.
SelectTick ==
    /\ Running /\ tpc = "select" /\ timer.C
    /\ tpc' = "tick"
    /\ timer' = [timer EXCEPT !.C = FALSE, !.idx = 1]
    /\ UNCHANGED <<variant, menu, quota, disk0, Config, life, IsClose, File, Handler,
                   stopTimer, ticks, Mutex, fs, now, console, pc, op, done, last,
                   rot, faults, panicked>>

\* l.checkAndRotate(files[idx]) up to its size test: no lock is taken.
TickCheck ==
    /\ Running /\ tpc = "tick" /\ rot[Timer].stage = "none"
    /\ LET c == files[timer.idx]
           d == checkSize(Config, File, fs, c)
       IN IF d = "rotate"
          THEN /\ rot' = [rot EXCEPT ![Timer] =
                          [stage |-> "close", cat |-> c, old |-> File[c], new |-> 0]]
               /\ UNCHANGED <<timer, tpc, pc>>
          ELSE RotReturn(Timer)
    /\ UNCHANGED <<variant, menu, quota, disk0, Config, life, IsClose, File, Handler,
                   stopTimer, ticks, Mutex, fs, now, console, op, done, last,
                   faults, panicked>>

\* case <-l.stopTimer: l.timer.Stop(); return
SelectStop ==
    /\ Running /\ tpc = "select" /\ stopTimer = "closed"
    /\ tpc' = "exited"
    /\ timer' = [timer EXCEPT !.armed = FALSE]
    /\ UNCHANGED <<variant, menu, quota, disk0, Config, life, IsClose, File, Handler,
                   stopTimer, ticks, Mutex, fs, now, console, pc, op, done, last,
                   rot, faults, panicked>>

\* A second passes. Only rotate reads the clock, to name a backup, so the
\* seconds that matter are those after a second some backup is named after.
AdvanceClock ==
    /\ ~panicked /\ now % Hour < MaxSec
    /\ \E n \in DOMAIN fs.dir : n.suffix = Format(now)
    /\ now' = now + 1
    /\ UNCHANGED <<variant, menu, quota, disk0, Config, life, IsClose, File, Handler,
                   stopTimer, timer, ticks, Mutex, fs, console, pc, op, done, last,
                   tpc, rot, faults, panicked>>

\* ---------------------------------------------------------------- callers
CanLockWhileRead == Mutex.w = NoOwner
CanLock == Mutex.w = NoOwner /\ Mutex.r = {}
CanRLock == Mutex.w = NoOwner

\* The caller's operation has returned; out is what it reports.
Return(t, out) ==
    /\ pc' = [pc EXCEPT ![t] = "idle"]
    /\ op' = [op EXCEPT ![t] = NoOp]
    /\ done' = [done EXCEPT ![t] = @ + 1]
    /\ last' = [last EXCEPT ![t] = out]

LogOutNilWhenSkipped(o) ==
    [kind |-> "log", method |-> o.method, messages |-> o.messages, err |-> o.err,
     parts |-> o.parts, seq |-> o.seq, wasClosed |-> o.wasClosed,
     entered |-> o.entered, landed |-> o.landed, tried |-> o.tried,
     bigIno |-> o.bigIno,
     returnsError |-> o.method \in ErrorMethods,
     ret |-> IF o.method \in ErrorMethods /\ o.entered
             THEN Err(ErrorText(o.messages)) ELSE NilErr]
\* What a leveled call reports when it returns: for the four error methods
\* ret is the error fmt.Errorf built (the other five return nothing).
LogOut(o) ==
    [kind |-> "log", method |-> o.method, messages |-> o.messages, err |-> o.err,
     parts |-> o.parts, seq |-> o.seq, wasClosed |-> o.wasClosed,
     entered |-> o.entered, landed |-> o.landed, tried |-> o.tried,
     bigIno |-> o.bigIno,
     returnsError |-> o.method \in ErrorMethods,
     ret |-> IF o.method \in ErrorMethods THEN Err(ErrorText(o.messages)) ELSE NilErr]

\* The inode of filename's active file if it is larger than MaxSize (0 if not).
Oversize(cfg, f, filename) ==
    IF Exists(f, ActiveName(filename))
          /\ Size(f, f.dir[ActiveName(filename)]) > cfg.MaxSize
    THEN f.dir[ActiveName(filename)] ELSE 0

\* l.Debug(...) ... l.Critical(...) up to l.Mutex.Lock(): the handler field
\* is read as the argument, the error text is appended, the level is checked.
StartCall(t) ==
    /\ Running /\ pc[t] = "idle" /\ done[t] < quota[t]
    /\ \E c \in menu :
          LET o == [kind |-> "log", method |-> c.method, level |-> MethodLevel(c.method),
                    filename |-> MethodFile(c.method), parts |-> c.parts, err |-> c.err,
                    messages |-> AppendErr(c.err, c.parts),
                    target |-> Handler[MethodFile(c.method)],
                    seq |-> done[t] + 1, wasClosed |-> IsClose, entered |-> FALSE,
                    bigIno |-> Oversize(Config, fs, MethodFile(c.method)),
                    i |-> 1, landed |-> 0, tried |-> 0]
          IN /\ c.kind = "log"
             /\ IF isValid(o.level)
                THEN /\ op' = [op EXCEPT ![t] = o]
                     /\ pc' = [pc EXCEPT ![t] = "lock"]
                     /\ UNCHANGED <<done, last>>
                ELSE Return(t, LogOut(o))
    /\ UNCHANGED <<variant, menu, quota, disk0, Config, life, IsClose, File, Handler,
                   stopTimer, timer, ticks, Mutex, fs, now, console, tpc, rot, faults,
                   panicked>>

skipCallClosedOnly(isClose, messages) == isClose
skipCallEmptyOnly(isClose, messages) == Len(messages) = 0
\* if l.IsClose || len(messages) == 0 { return }
skipCall(isClose, messages) == isClose \/ Len(messages) = 0

\* l.Mutex.Lock(), the check of IsClose and len(messages), and, in the build
\* that checks before writing, checkAndRotate up to its size test (191-202).
LockCall(t) ==
    /\ Running /\ pc[t] = "lock" /\ CanLock
    /\ IF skipCall(IsClose, op[t].messages)
       THEN /\ Return(t, LogOut(op[t]))
            /\ UNCHANGED <<Mutex, rot>>
       ELSE /\ Mutex' = [Mutex EXCEPT !.w = t]
            /\ op' = [op EXCEPT ![t].entered = TRUE]
            /\ UNCHANGED <<done, last>>
            /\ IF variant = "precheck"
                  /\ checkSize(Config, File, fs, op[t].filename) = "rotate"
               THEN /\ rot' = [rot EXCEPT ![t] =
                          [stage |-> "close", cat |-> op[t].filename,
                           old |-> File[op[t].filename], new |-> 0]]
                    /\ pc' = [pc EXCEPT ![t] = "rotating"]
               ELSE /\ pc' = [pc EXCEPT ![t] = "write"]
                    /\ UNCHANGED rot
    /\ UNCHANGED <<variant, menu, quota, disk0, Config, life, IsClose, File, Handler,
                   stopTimer, timer, ticks, fs, now, console, tpc, faults, panicked>>

MirrorAllToStdout(cfg, con, filename, ok, line) ==
    IF cfg.Stdout /\ ok THEN [con EXCEPT !.stdout = Append(@, line)] ELSE con
\* What one Write of the handler's io.MultiWriter does: the file first, and
\* the console stream only if the file took the line.
Mirror(cfg, con, filename, ok, line) ==
    IF cfg.Stdout /\ ok
    THEN IF filename = defaultErrorName
         THEN [con EXCEPT !.stderr = Append(@, line)]
         ELSE [con EXCEPT !.stdout = Append(@, line)]
    ELSE con

\* One write of the call (one Printf of the tree, or the JSON record); after
\* the last one the deferred Unlock runs and the call returns.
WriteLine(t) ==
    /\ Running /\ pc[t] = "write"
    /\ LET o == op[t]
           ok == IsOpen(fs, o.target)
           line == [who |-> <<t, o.seq>>, i |-> o.i, body |-> Line(Config, o.level, o.messages, o.i)]
           o2 == [o EXCEPT !.i = @ + 1, !.tried = @ + 1,
                           !.landed = IF ok THEN @ + 1 ELSE @]
       IN /\ fs' = WriteFd(fs, o.target, line)
          /\ console' = Mirror(Config, console, o.filename, ok, line)
          /\ IF o.i = Writes(Config, o.messages)
             THEN /\ Mutex' = Unlocked
                  /\ Return(t, LogOut(o2))
             ELSE /\ op' = [op EXCEPT ![t] = o2]
                  /\ UNCHANGED <<Mutex, pc, done, last>>
    /\ UNCHANGED <<variant, menu, quota, disk0, Config, life, IsClose, File, Handler,
                   stopTimer, timer, ticks, now, tpc, rot, faults, panicked>>

\* ------------------------------------------------------------------ Close
\* l.Mutex.Lock()
CloseLock(t) ==
    /\ Running /\ pc[t] = "idle" /\ done[t] < quota[t] /\ CanLock
    /\ CloseCall \in menu
    /\ Mutex' = [Mutex EXCEPT !.w = t]
    /\ pc' = [pc EXCEPT ![t] = "closing"]
    /\ op' = [op EXCEPT ![t] = [kind |-> "Close", seq |-> done[t] + 1, wasClosed |-> IsClose]]
    /\ UNCHANGED <<variant, menu, quota, disk0, Config, life, IsClose, File, Handler,
                   stopTimer, timer, ticks, fs, now, console, done, last, tpc, rot,
                   faults, panicked>>

\* close(l.stopTimer): closing a closed channel panics.
closeStop(st) == IF st = "nil" THEN "nil" ELSE "closed"
closePanics(st) == st = "closed"

closeNeverReturnsEarly(isClose) == FALSE
\* if l.IsClose { return nil }
closeReturnsEarly(isClose) == isClose

setClosedForgotten(isClose) == isClose
\* l.IsClose = true
setClosed(isClose) == TRUE
\* The body of Close and the deferred Unlock. closed counts the descriptors
\* this call closed, signalled whether it closed the stop channel.
CloseBody(t) ==
    /\ Running /\ pc[t] = "closing"
    /\ Mutex' = Unlocked
    /\ IF closeReturnsEarly(IsClose)
       THEN /\ Return(t, [kind |-> "Close", seq |-> op[t].seq, wasClosed |-> TRUE,
                         isErr |-> FALSE, closed |-> 0, signalled |-> FALSE])
            /\ UNCHANGED <<IsClose, stopTimer, fs, panicked>>
       ELSE /\ IsClose' = setClosed(IsClose)
            /\ stopTimer' = closeStop(stopTimer)
            /\ panicked' = closePanics(stopTimer)
            /\ fs' = CloseAll(fs, File, DOMAIN File)
            /\ Return(t, [kind |-> "Close", seq |-> op[t].seq, wasClosed |-> FALSE,
                         isErr |-> CloseErrs(fs, File) # {},
                         closed |-> Cardinality(DOMAIN File \ CloseErrs(fs, File)),
                         signalled |-> stopTimer # "nil"])
    /\ UNCHANGED <<variant, menu, quota, disk0, Config, life, File, Handler, timer, ticks,
                   now, console, tpc, rot, faults>>

\* ------------------------------------------------------------------ Flush
\* l.Mutex.RLock()
FlushLock(t) ==
    /\ Running /\ pc[t] = "idle" /\ done[t] < quota[t] /\ CanRLock
    /\ FlushCall \in menu
    /\ Mutex' = [Mutex EXCEPT !.r = @ \cup {t}]
    /\ pc' = [pc EXCEPT ![t] = "flushing"]
    /\ op' = [op EXCEPT ![t] = [kind |-> "Flush", seq |-> done[t] + 1, wasClosed |-> IsClose]]
    /\ UNCHANGED <<variant, menu, quota, disk0, Config, life, IsClose, File, Handler,
                   stopTimer, timer, ticks, fs, now, console, done, last, tpc, rot,
                   faults, panicked>>

\* file.Sync() returns an error on a closed descriptor.
SyncErrs(f, F) == {c \in DOMAIN F : ~IsOpen(f, F[c])}
\* The body of Flush and the deferred RUnlock. synced counts the Sync calls.
flushNeverRefused(isClose) == FALSE
\* if l.IsClose { return fmt.Errorf("logger is closed") }
flushRefused(isClose) == isClose
FlushOut(o, isClose, f, F) ==
    LET closed == flushRefused(isClose)
    IN
    [kind |-> "Flush", seq |-> o.seq, wasClosed |-> o.wasClosed, sawClosed |-> isClose,
     isErr |-> closed \/ SyncErrs(f, F) # {},
     synced |-> IF closed THEN 0 ELSE Cardinality(DOMAIN F),
     syncFailed |-> IF closed THEN 0 ELSE Cardinality(SyncErrs(f, F))]
RUnlockForgotten(m, t) == m
\* defer l.Mutex.RUnlock()
RUnlock(m, t) == [m EXCEPT !.r = @ \ {t}]
FlushBody(t) ==
    /\ Running /\ pc[t] = "flushing"
    /\ Mutex' = RUnlock(Mutex, t)
    /\ Return(t, FlushOut(op[t], IsClose, fs, File))
    /\ UNCHANGED <<variant, menu, quota, disk0, Config, life, IsClose, File, Handler,
                   stopTimer, timer, ticks, fs, now, console, tpc, rot, faults,
                   panicked>>

\* ---------------------------------------------------------------- Cleanup
\* l.Cleanup(path) called on the logger: no lock is taken, IsClose is not
\* looked at. before is the directory the call found.
CleanupCall(t) ==
    /\ Running /\ pc[t] = "idle" /\ done[t] < quota[t]
    /\ \E c \in menu, flt \in FaultSet :
          /\ c.kind = "Cleanup"
          /\ LET r == Cleanup(Config, fs, c.path, flt)
             IN /\ Inject(flt, r # Cleanup(Config, fs, c.path, NoFault))
                /\ fs' = r.fs
                /\ panicked' = r.panic
                /\ Return(t, [kind |-> "Cleanup", seq |-> done[t] + 1, path |-> c.path,
                              before |-> fs, isErr |-> r.err])
    /\ UNCHANGED <<variant, menu, quota, disk0, Config, life, IsClose, File, Handler,
                   stopTimer, timer, ticks, Mutex, now, console, tpc, rot>>
\* ------------------------------------------------------------------- Next
Next ==
    \/ NewMkdirFails
    \/ New
    \/ \E t \in Procs : StartCall(t)
    \/ \E t \in Procs : LockCall(t)
    \/ \E t \in Procs : WriteLine(t)
    \/ \E t \in Procs : CloseLock(t)
    \/ \E t \in Procs : CloseBody(t)
    \/ \E t \in Procs : FlushLock(t)
    \/ \E t \in Procs : FlushBody(t)
    \/ \E a \in Actors : RotClose(a)
    \/ \E a \in Actors : RotRotate(a)
    \/ \E a \in Actors : RotOpen(a)
    \/ \E a \in Actors : RotAssign(a)
    \/ TimerExpire
    \/ SelectTick
    \/ TickCheck
    \/ SelectStop
    \/ AdvanceClock

\* ------------------------------------------------------------ the runs
\* A line that was in a file before New.
OldLine(k) == [who |-> <<0, k>>, i |-> 1, body |-> <<>>]
\* A directory holding only filename, with n old lines.
DiskWith(filename, n) ==
    [dir |-> [x \in {ActiveName(filename)} |-> 1],
     ino |-> <<[data |-> [k \in 1..n |-> OldLine(k)], mtime |-> 1,
               born |-> ActiveName(filename)]>>,
     fd |-> <<>>]
A == <<"a">>
B == <<"b">>
SmallConfig == Log("./x", FALSE, CfgMaxSize, CfgMaxBackup, "text")
SmallMenu ==
    {LogCall("Info", <<StrPart(A)>>, NilErr),
     CloseCall, FlushCall}

Init ==
    InitWith({"writer", "precheck"}, {SmallConfig},
             {EmptyFs, DiskWith(defaultOutputName, CfgMaxSize + 1)},
             {SmallMenu}, {[t \in Procs |-> MaxOps]}, MaxFaults)

Spec == Init /\ [][Next]_vars

\* The rotation runs: one caller logs RotOps times within the hour, in the
\* build that checks the size before each write.
RotConfig == Log("./x", FALSE, CfgMaxSize, RotMaxBackup, "text")
InitRot ==
    InitWith({"precheck"}, {RotConfig},
             {EmptyFs, DiskWith(defaultOutputName, CfgMaxSize + 1)},
             {{LogCall("Info", <<StrPart(A)>>, NilErr)}},
             {[t \in Procs |-> IF t = 1 THEN RotOps ELSE 0]}, MaxFaults)
NextRot ==
    \/ New
    \/ StartCall(1)
    \/ LockCall(1)
    \/ WriteLine(1)
    \/ RotClose(1)
    \/ RotRotate(1)
    \/ RotOpen(1)
    \/ RotAssign(1)
    \/ AdvanceClock
SpecRot == InitRot /\ [][NextRot]_vars

\* The sequential runs: one caller makes SeqOps calls within the hour, any
\* of the nine methods with zero to two parts, Close and Flush.
AB == <<"a", "b">>
E == <<"e">>
SeqParts ==
    {<<>>, <<StrPart(A)>>, <<StrPart(AB), StrPart(B)>>, <<StrPart(A), IntPart(12)>>}
SeqMenu ==
    {LogCall(m, ps, NilErr) : m \in Methods, ps \in SeqParts}
        \cup {LogCall(m, ps, Err(E)) : m \in ErrorMethods, ps \in SeqParts}
        \cup {CloseCall, FlushCall}
SeqConfigs ==
    {Log("./x", TRUE, CfgMaxSize, CfgMaxBackup, "text"),
     Log("./x", FALSE, CfgMaxSize, CfgMaxBackup, "json")}
InitSeq ==
    InitWith({"writer"}, SeqConfigs, {EmptyFs}, {SeqMenu},
             {[t \in Procs |-> IF t = 1 THEN SeqOps ELSE 0]}, 0)
NextSeq ==
    \/ New
    \/ StartCall(1)
    \/ LockCall(1)
    \/ WriteLine(1)
    \/ CloseLock(1)
    \/ CloseBody(1)
    \/ FlushLock(1)
    \/ FlushBody(1)
SpecSeq == InitSeq /\ [][NextSeq]_vars


\* The configuration runs: New is given nil or a *Log with any of its fields
\* zero, then one caller logs CfgOps times.
CfgOps == 2
GivenConfigs ==
    {Nil} \cup {Log(p, s, ms, mb, ty) : p \in {"", "./x"}, s \in {FALSE, TRUE},
                                        ms \in {0, CfgMaxSize, -1}, mb \in {0, CfgMaxBackup, -1},
                                        ty \in {"", "text", "json"}}
InitCfg ==
    InitWith({"writer"}, GivenConfigs, {EmptyFs},
             {{LogCall("Error", <<StrPart(A)>>, Err(E))}},
             {[t \in Procs |-> IF t = 1 THEN CfgOps ELSE 0]}, MaxFaults)
NextCfg ==
    \/ NewMkdirFails
    \/ New
    \/ StartCall(1)
    \/ LockCall(1)
    \/ WriteLine(1)
SpecCfg == InitCfg /\ [][NextCfg]_vars

\* The pruning runs: the directory holds up to CleanMaxN backups of
\* output.log, a backup of error.log and a file whose name only resembles a
\* backup's, with modification times in any order; one caller calls Cleanup.
CleanMaxN == 3
CleanOps == 2
CleanNames ==
    <<Name(defaultErrorName, Format(0)), Name(defaultOutputName, <<"o", "l", "d">>),
      Name(defaultOutputName, Format(0)), Name(defaultOutputName, Format(1)),
      Name(defaultOutputName, Format(2)), Name(defaultOutputName, Format(3))>>
BackupDisk(m, mt) ==
    [dir |-> [n \in {CleanNames[k] : k \in 1..m} |->
                 CHOOSE k \in 1..m : CleanNames[k] = n],
     ino |-> [k \in 1..m |-> [data |-> <<>>, mtime |-> mt[k], born |-> CleanNames[k]]],
     fd |-> <<>>]
CleanDisks ==
    UNION {{BackupDisk(m, mt) :
                mt \in {f \in [1..m -> 1..m] : \A i, j \in 1..m : f[i] = f[j] => i = j}} :
           m \in 2..(2 + CleanMaxN)}
InitClean ==
    InitWith({"writer"},
             {Log("./x", FALSE, CfgMaxSize, mb, "text") : mb \in {0, 1, 2}},
             CleanDisks, {{CleanupCallOf(defaultOutputName)}},
             {[t \in Procs |-> IF t = 1 THEN CleanOps ELSE 0]}, MaxFaults)
NextClean ==
    \/ New
    \/ CleanupCall(1)
SpecClean == InitClean /\ [][NextClean]_vars

\* The locking runs: NumProcs callers log to two categories (a two-line
\* tree to output.log, one line to error.log), flush and close while the
\* hourly timer runs; no system call fails.
LockOps == 2
LockMenu ==
    {LogCall("Info", <<StrPart(A), StrPart(B)>>, NilErr),
     LogCall("Error", <<StrPart(A)>>, NilErr), CloseCall, FlushCall}
InitLock ==
    InitWith({"writer"}, {SmallConfig}, {EmptyFs}, {LockMenu},
             {[t \in Procs |-> LockOps]}, 0)
NextLock ==
    \/ New
    \/ \E t \in Procs : StartCall(t)
    \/ \E t \in Procs : LockCall(t)
    \/ \E t \in Procs : WriteLine(t)
    \/ \E t \in Procs : CloseLock(t)
    \/ \E t \in Procs : CloseBody(t)
    \/ \E t \in Procs : FlushLock(t)
    \/ \E t \in Procs : FlushBody(t)
    \/ RotClose(Timer)
    \/ RotRotate(Timer)
    \/ RotOpen(Timer)
    \/ RotAssign(Timer)
    \/ TimerExpire
    \/ SelectTick
    \/ TickCheck
    \/ SelectStop
SpecLock == InitLock /\ [][NextLock]_vars

\* The fair runs: the locking runs with LiveOps calls per caller, in which
\* a goroutine that can take its next step eventually takes it (the Go
\* scheduler runs every runnable goroutine, and a goroutine waiting in
\* Lock gets the mutex once it stays free).
LiveOps == 1
InitLive ==
    InitWith({"writer"}, {SmallConfig}, {EmptyFs}, {LockMenu},
             {[t \in Procs |-> LiveOps]}, 0)
Fairness ==
    /\ \A t \in Procs :
          /\ WF_vars(LockCall(t)) /\ WF_vars(WriteLine(t))
          /\ WF_vars(CloseBody(t)) /\ WF_vars(FlushBody(t))
    /\ WF_vars(SelectTick \/ SelectStop)
    /\ WF_vars(TickCheck)
    /\ WF_vars(RotClose(Timer)) /\ WF_vars(RotRotate(Timer))
    /\ WF_vars(RotOpen(Timer)) /\ WF_vars(RotAssign(Timer))
SpecLive == InitLive /\ [][NextLock]_vars /\ Fairness

\* The mirroring runs: Stdout set or unset, in both modes; one caller logs
\* to the three categories and closes.
MirrorOps == 3
MirrorConfigs ==
    {Log("./x", s, CfgMaxSize, CfgMaxBackup, ty) : s \in {TRUE, FALSE}, ty \in {"text", "json"}}
MirrorMenu ==
    {LogCall("Debug", <<StrPart(A)>>, NilErr),
     LogCall("Info", <<StrPart(A), StrPart(B)>>, NilErr),
     LogCall("Error", <<StrPart(B)>>, Err(E)), CloseCall, FlushCall}
InitMirror ==
    InitWith({"writer"}, MirrorConfigs, {EmptyFs}, {MirrorMenu},
             {[t \in Procs |-> IF t = 1 THEN MirrorOps ELSE 0]}, 0)
SpecMirror == InitMirror /\ [][NextSeq]_vars

\* The runs about the size test: one caller, either build, the timer, no
\* failing system call; output.log holds 0 to CfgMaxSize + 1 lines before New.
SizeOps == 3
InitSize ==
    InitWith({"writer", "precheck"}, {SmallConfig},
             {DiskWith(defaultOutputName, n) : n \in 0..(CfgMaxSize + 1)},
             {{LogCall("Info", <<StrPart(A)>>, NilErr)}},
             {[t \in Procs |-> IF t = 1 THEN SizeOps ELSE 0]}, 0)
NextSize ==
    \/ New
    \/ StartCall(1)
    \/ LockCall(1)
    \/ WriteLine(1)
    \/ \E a \in {1, Timer} : RotClose(a)
    \/ \E a \in {1, Timer} : RotRotate(a)
    \/ \E a \in {1, Timer} : RotOpen(a)
    \/ \E a \in {1, Timer} : RotAssign(a)
    \/ TimerExpire
    \/ SelectTick
    \/ TickCheck
SpecSize == InitSize /\ [][NextSize]_vars

\* The pruning runs: the directory holds an oversize output.log, two backups
\* of it, a file whose name only resembles a backup's and a backup of
\* error.log; one caller of the build that checks before writing logs and
\* calls Cleanup for two categories, and system calls may fail.
PruneOps == 3
PruneNames ==
    <<Name(defaultErrorName, Format(0)), Name(defaultOutputName, <<"o", "l", "d">>),
      Name(defaultOutputName, Format(0)), Name(defaultOutputName, Format(1)),
      ActiveName(defaultOutputName)>>
PruneDisk ==
    [dir |-> [n \in {PruneNames[k] : k \in 1..5} |-> CHOOSE k \in 1..5 : PruneNames[k] = n],
     ino |-> [k \in 1..5 |->
                 [data |-> IF k = 5 THEN [j \in 1..(CfgMaxSize + 1) |-> OldLine(j)] ELSE <<>>,
                  mtime |-> k, born |-> PruneNames[k]]],
     fd |-> <<>>]
PruneMenu ==
    {LogCall("Info", <<StrPart(A)>>, NilErr),
     CleanupCallOf(defaultOutputName), CleanupCallOf(defaultErrorName)}
InitPrune ==
    InitWith({"precheck"}, {SmallConfig}, {PruneDisk, EmptyFs}, {PruneMenu},
             {[t \in Procs |-> IF t = 1 THEN PruneOps ELSE 0]}, MaxFaults)
NextPrune ==
    \/ NextRot
    \/ CleanupCall(1)
SpecPrune == InitPrune /\ [][NextPrune]_vars

\* The runs with a negative MaxBackup: as the pruning runs of SpecClean, the
\* caller having given MaxBackup -CfgMaxBackup or CfgMaxBackup.
InitNeg ==
    InitWith({"writer"},
             {Log("./x", FALSE, CfgMaxSize, mb, "text") :
                 mb \in {0 - CfgMaxBackup, CfgMaxBackup}},
             CleanDisks, {{CleanupCallOf(defaultOutputName)}},
             {[t \in Procs |-> IF t = 1 THEN CleanOps ELSE 0]}, MaxFaults)
SpecNeg == InitNeg /\ [][NextClean]_vars
\* ------------------------------------------------------------ the claims
\* The names a category's files have in the directory, and the descriptors
\* open on inodes that were created as that category's active file.
BackupsOf(f, filename) == {n \in DOMAIN f.dir : n.base = filename /\ n.suffix # <<>>}
OpenHandles(f, filename) ==
    {h \in 1..Len(f.fd) : f.fd[h].open /\ f.ino[f.fd[h].ino].born = ActiveName(filename)}
\* No checkAndRotate is between its Close of the old descriptor and its end.
NoRotationRunning == \A a \in Actors : rot[a].stage = "none"
NoFaultYet == faults = MaxFaults

\* C1: every logging call with at least one part that found the logger open
\* leaves its complete record in the category's files: each of its writes
\* landed in a file. (Stated for writer.go and for runs without any failing
\* system call.)
C1_EveryCallRecorded ==
    \A t \in Procs :
        (/\ variant = "writer" /\ NoFaultYet
         /\ last[t].kind = "log" /\ last[t].entered)
        => last[t].landed = Writes(Config, last[t].messages)

\* C2: no record is appended to an active file that was already larger than
\* MaxSize when the logging call started (the file is rotated first), and
\* every backup is named <file>.<8 digits>_<6 digits>.
C2_RotatedBeforeWrite ==
    /\ \A t \in Procs :
          (last[t].kind = "log" /\ last[t].bigIno # 0)
          => \A k \in 1..Len(fs.ino[last[t].bigIno].data) :
                fs.ino[last[t].bigIno].data[k].who # <<t, last[t].seq>>
    /\ \A n \in DOMAIN fs.dir : n.suffix # <<>> => BackupPattern(n.base, n)

\* C4: while the logger is open (and no rotation is under way) each of the
\* three files has exactly one open descriptor; once Close has run, none has.
C4_OneHandlePerCategory ==
    /\ (life = "open" /\ ~IsClose /\ NoRotationRunning)
       => \A c \in Cats : Cardinality(OpenHandles(fs, c)) = 1
    /\ IsClose => \A c \in Cats : OpenHandles(fs, c) = {}

\* C8: while the timer's check is inside its close-rename-reopen sequence no
\* caller holds the lock, exclusively (a write section, Close) or shared
\* (Flush), and no other rotation is under way.
C8_TickSerialized ==
    rot[Timer].stage # "none"
    => (Mutex = Unlocked /\ \A t \in Procs : rot[t].stage = "none")

\* C9 (the part a finite run decides): once the stop channel is closed, no
\* rotation check of any file begins.
C9_NoCheckAfterStop == [][stopTimer = "closed" => ~TickCheck]_vars

\* The inodes that were filename's active file and have been rotated away.
Rotated(f, filename) ==
    {i \in 1..Len(f.ino) :
        /\ f.ino[i].born = ActiveName(filename)
        /\ (Exists(f, ActiveName(filename)) => f.dir[ActiveName(filename)] # i)}

\* C3: after N rotations of a file with MaxBackup = k < N exactly k backups
\* of it exist, and they are the k most recently modified of the rotated
\* files. (Stated for runs without any failing system call.)
C3_KeepsNewestK ==
    \A c \in Cats :
        LET k == Config.MaxBackup
            kept == {fs.dir[n] : n \in BackupsOf(fs, c)}
        IN (/\ life = "open" /\ NoRotationRunning /\ NoFaultYet
            /\ k < Cardinality(Rotated(fs, c)))
           => /\ Cardinality(BackupsOf(fs, c)) = k
              /\ kept \subseteq Rotated(fs, c)
              /\ \A i \in kept : \A j \in Rotated(fs, c) \ kept :
                    fs.ino[j].mtime < fs.ino[i].mtime

\* C5: a Close that finds the logger already closed returns no error and
\* changes nothing: no descriptor is closed, the stop channel is not closed
\* again, nothing panics.
C5_CloseIdempotent ==
    [][\A t \in Procs :
          (pc[t] = "closing" /\ IsClose /\ pc'[t] = "idle")
          => /\ ~last'[t].isErr
             /\ IsClose' /\ fs' = fs /\ File' = File /\ Handler' = Handler
             /\ stopTimer' = stopTimer /\ timer' = timer /\ tpc' = tpc
             /\ console' = console /\ panicked' = panicked]_vars
C5_SecondCloseReturned ==
    \E t \in Procs : last[t].kind = "Close" /\ last[t].wasClosed

\* C6: a leveled call made after Close has completed leaves writeToLog in
\* one step that changes no file, no descriptor, no handler and no console
\* stream, starts no rotation and does not panic.
C6_IgnoredAfterClose ==
    [][\A t \in Procs :
          (pc[t] = "lock" /\ op[t].wasClosed /\ pc'[t] # "lock")
          => /\ pc'[t] = "idle"
             /\ fs' = fs /\ console' = console /\ File' = File /\ Handler' = Handler
             /\ rot' = rot /\ panicked' = panicked /\ IsClose' = IsClose
             /\ last'[t].tried = 0 /\ last'[t].landed = 0]_vars
C6_CallAfterCloseReturned ==
    \E t \in Procs :
        /\ last[t].kind = "log" /\ last[t].wasClosed
        /\ Len(last[t].messages) > 0 /\ last[t].tried = 0

\* C7: a Flush called on a closed logger returns an error and calls Sync on
\* no descriptor; a Flush that finds the logger open and whose Sync calls
\* all succeed returns nil.
C7_FlushAfterClose ==
    \A t \in Procs :
        last[t].kind = "Flush"
        => /\ last[t].wasClosed => (last[t].isErr /\ last[t].synced = 0)
           /\ (~last[t].sawClosed /\ last[t].syncFailed = 0) => ~last[t].isErr
C7_BothFlushes ==
    \E t, u \in Procs :
        /\ last[t].kind = "Flush" /\ last[t].wasClosed /\ last[t].isErr
        /\ last[u].kind = "Flush" /\ ~last[u].sawClosed /\ ~last[u].isErr
        /\ last[u].synced = Cardinality(Cats)

\* text is strs joined by single spaces, said position by position.
RECURSIVE Offset(_, _)
Offset(strs, i) == IF i = 1 THEN 0 ELSE Offset(strs, i - 1) + Len(strs[i - 1]) + 1
IsJoinedBySpaces(text, strs) ==
    /\ Len(text) = IF strs = <<>> THEN 0 ELSE Offset(strs, Len(strs)) + Len(Last(strs))
    /\ \A i \in 1..Len(strs) :
          /\ \A j \in 1..Len(strs[i]) : text[Offset(strs, i) + j] = strs[i][j]
          /\ i < Len(strs) => text[Offset(strs, i) + Len(strs[i]) + 1] = " "

\* C10: WarnError, Error, Fatal and Critical return a non-nil error whose
\* text is the call's parts, then the text of the underlying error when one
\* was supplied, joined by single spaces.
C10_ErrorAlwaysReturned ==
    \A t \in Procs :
        (last[t].kind = "log" /\ last[t].method \in ErrorMethods)
        => LET given == [i \in 1..Len(last[t].parts) |-> Sprintv(last[t].parts[i])]
               strs == IF last[t].err.nil THEN given ELSE Append(given, last[t].err.text)
           IN /\ ~last[t].ret.nil
              /\ IsJoinedBySpaces(last[t].ret.text, strs)
C10_ErrorWithCauseReturned ==
    \E t \in Procs :
        /\ last[t].kind = "log" /\ last[t].method \in ErrorMethods
        /\ ~last[t].err.nil /\ Len(last[t].parts) = 2

\* C11: a logging call with zero message parts and no underlying error writes
\* nothing: when it passes the check under the lock it returns at once, with
\* every file, every descriptor and both console streams as they were, in the
\* tree mode and in the structured mode.
C11_EmptyCallWritesNothing ==
    [][\A t \in Procs :
          (/\ pc[t] = "lock" /\ pc'[t] # "lock"
           /\ op[t].parts = <<>> /\ op[t].err.nil)
          => /\ pc'[t] = "idle"
             /\ fs' = fs /\ console' = console
             /\ last'[t].tried = 0 /\ ~panicked']_vars
C11_EmptyErrorCallReturned ==
    \E t \in Procs :
        /\ last[t].kind = "log" /\ last[t].method \in ErrorMethods
        /\ last[t].parts = <<>> /\ last[t].err.nil /\ ~last[t].wasClosed
        /\ ~IsClose /\ Config.Type = "json"

\* The lines call number seq of caller t left in one file, in file order.
LinesOf(data, t, seq) ==
    LET mine(x) == x.who = <<t, seq>> IN SelectSeq(data, mine)
\* body is deco followed by the text of part m (a string part: its characters).
Decorated(body, deco, m) ==
    /\ Len(body) >= Len(deco)
    /\ SubSeq(body, 1, Len(deco)) = deco
    /\ m.tag = "string" => SubSeq(body, Len(deco) + 1, Len(body)) = m.s

\* C12: in tree mode a call with n >= 1 parts leaves exactly n lines, in part
\* order, in one file: the headline carries "[LEVEL] " unless the level is
\* INFO, lines 2..n-1 carry the branch glyph and line n (n >= 2) the corner
\* glyph; a single part is one line without a glyph.
C12_TreeLines ==
    \A t \in Procs :
        (last[t].kind = "log" /\ last[t].entered /\ Config.Type = "text")
        => LET ms == last[t].messages
               n == Len(ms)
               level == MethodLevel(last[t].method)
               head == IF level = logInfo THEN <<>>
                       ELSE <<"[">> \o Chars(level) \o <<"]", " ">>
               deco(k) == IF k = 1 THEN head ELSE IF k = n THEN Corner ELSE Branch
           IN \E i \in 1..Len(fs.ino) :
                 LET ls == LinesOf(fs.ino[i].data, t, last[t].seq)
                 IN /\ Len(ls) = n
                    /\ \A k \in 1..n : Decorated(ls[k].body, deco(k), ms[k])
                    /\ \A j \in 1..Len(fs.ino) :
                          j # i => LinesOf(fs.ino[j].data, t, last[t].seq) = <<>>
C12_ThreeLineTreeWritten ==
    \E t \in Procs :
        /\ last[t].kind = "log" /\ last[t].entered /\ Config.Type = "text"
        /\ Len(last[t].messages) = 3 /\ last[t].landed = 3
        /\ MethodLevel(last[t].method) # logInfo

\* The values record carries under key, in record order.
FieldsOf(record, key) ==
    LET has(p) == p[1] = key
        ps == SelectSeq(record, has)
    IN [k \in 1..Len(ps) |-> ps[k][2]]
\* The keys "msg1", "msg2", ... of a record.
IsAuxKey(key) ==
    /\ Len(key) > 3 /\ SubSeq(key, 1, 3) = <<"m", "s", "g">>
    /\ \A k \in 4..Len(key) : key[k] \in Digits

C15_DefaultsApplied ==
    [][life = "unborn" /\ life' # "unborn"
       => LET given == Config
              eff == Config'
          IN IF given = Nil
             THEN /\ eff.Path = "./logs" /\ eff.MaxSize = 16 * 1024 * 1024
                  /\ eff.MaxBackup = 5 /\ eff.Type = "text" /\ ~eff.Stdout
             ELSE /\ eff.Path = IF given.Path = "" THEN "./logs" ELSE given.Path
                  /\ eff.MaxSize = IF given.MaxSize = 0 THEN 16 * 1024 * 1024
                                   ELSE given.MaxSize
                  /\ eff.MaxBackup = IF given.MaxBackup = 0 THEN 5 ELSE given.MaxBackup
                  /\ eff.Type = IF given.Type = "" THEN "text" ELSE given.Type
                  /\ eff.Stdout = given.Stdout]_vars
C15_MixedConfigOpened ==
    /\ life = "open"
    /\ Config = Log("./x", TRUE, DefaultMaxSize, CfgMaxBackup, DefaultType)
    /\ \E t \in Procs : last[t].kind = "log" /\ last[t].landed > 0

\* C16: when New returns a logger, each of the three category files exists
\* and l.File holds an open descriptor on it, and a file New found larger
\* than MaxSize is now a backup while the active file is a fresh, empty one;
\* when a rename or an open failed during New, New returns the error and no
\* logger: nothing is left open and no timer runs.
C16_NewOpensOrFails ==
    [][life = "unborn" /\ life' # "unborn"
       => /\ life' = "open" =>
                \A c \in Cats :
                    /\ c \in DOMAIN File' /\ IsOpen(fs', File'[c])
                    /\ Exists(fs', ActiveName(c))
                    /\ fs'.fd[File'[c]].ino = fs'.dir[ActiveName(c)]
                    /\ Oversize(Config', fs, c) # 0 =>
                          /\ Size(fs', fs'.dir[ActiveName(c)]) = 0
                          /\ \E n \in BackupsOf(fs', c) :
                                BackupPattern(c, n) /\ fs'.dir[n] = Oversize(Config', fs, c)
          /\ faults' # faults => life' = "failed"
          /\ life' = "failed" =>
                /\ \A h \in 1..Len(fs'.fd) : ~fs'.fd[h].open
                /\ tpc' = "off" /\ ~timer'.armed]_vars
C16_StartedWithRotation ==
    /\ life = "open" /\ disk0 # EmptyFs
    /\ \A t \in Procs : done[t] = 0 /\ pc[t] = "idle"
    /\ BackupsOf(fs, defaultOutputName) # {}
    /\ Size(fs, fs.dir[ActiveName(defaultOutputName)]) = 0

\* C17: a Close that finds the logger open sets IsClose, closes the stop
\* channel and calls Close on every descriptor of l.File, also when one of
\* these fails: afterwards none of them is open, the call returns an error
\* exactly when some descriptor's Close failed, and the logger is closed
\* either way.
C17_CloseClosesAll ==
    [][\A t \in Procs :
          (pc[t] = "closing" /\ ~IsClose /\ pc'[t] = "idle")
          => /\ IsClose' /\ stopTimer' = "closed"
             /\ \A c \in DOMAIN File : ~IsOpen(fs', File[c])
             /\ File' = File
             /\ last'[t].kind = "Close"
             /\ last'[t].isErr = (\E c \in DOMAIN File : ~IsOpen(fs, File[c]))
             /\ last'[t].closed = Cardinality({c \in DOMAIN File : IsOpen(fs, File[c])})]_vars
C17_CloseWithOneFailure ==
    \E t \in Procs :
        /\ last[t].kind = "Close" /\ ~last[t].wasClosed
        /\ last[t].isErr /\ last[t].closed = 2 /\ IsClose

\* C18: when the rotation a logging call started before its write fails (the
\* rename or the reopen), the call goes on to write with the logger still
\* open, and the descriptor it writes to, the one the logger holds for the
\* category, is open, so that the message lands in the file.
C18_WriteSurvivesFailedRotation ==
    [][\A t \in Procs :
          (/\ pc[t] = "rotating" /\ pc'[t] = "write"
           /\ rot[t].stage \in {"rotate", "open"})
          => /\ ~IsClose' /\ ~panicked'
             /\ op[t].target = File'[op[t].filename]
             /\ IsOpen(fs', op[t].target)]_vars

\* A step of checkAndRotate's rotate in which the rename was done and the
\* pruning that followed it failed.
PruneFailedIn(a) ==
    /\ rot[a].stage = "rotate" /\ rot'[a] # rot[a]
    /\ faults' # faults
    /\ Exists(fs, ActiveName(rot[a].cat)) /\ ~Exists(fs', ActiveName(rot[a].cat))

\* C19 as stated: when pruning fails during a rotation, rotate returns an
\* error to its caller, and the backup the rotation made still exists.
C19_PruneErrorPropagates ==
    [][\A a \in Actors :
          PruneFailedIn(a)
          => /\ rot'[a].stage = "none"
             /\ Exists(fs', Name(rot[a].cat, Format(now)))]_vars
\* C19 as the code has it: when pruning fails during a rotation, rotate
\* still returns success (the failure is only printed), checkAndRotate goes
\* on to reopen the file, and the rename is not rolled back: the backup the
\* rotation made exists and holds the rotated file.
C19_PruneErrorOnlyPrinted ==
    [][\A a \in Actors :
          PruneFailedIn(a)
          => /\ rot'[a].stage = "open"
             /\ Exists(fs', Name(rot[a].cat, Format(now)))
             /\ fs'.dir[Name(rot[a].cat, Format(now))] = fs.dir[ActiveName(rot[a].cat)]]_vars
C19_BackupKeptAfterFailedPrune ==
    \E a \in Actors :
        /\ rot[a].stage = "open" /\ faults < MaxFaults
        /\ ~Exists(fs, ActiveName(rot[a].cat))
        /\ Exists(fs, Name(rot[a].cat, Format(now)))
        /\ Cardinality(BackupsOf(fs, rot[a].cat)) > Config.MaxBackup

Writers == {t \in Procs : pc[t] \in {"write", "rotating"}}
Closers == {t \in Procs : pc[t] = "closing"}
Flushers == {t \in Procs : pc[t] = "flushing"}

\* C21: one lock covers the three categories: at most one caller is inside
\* a write section or inside Close, whatever the categories; callers inside
\* Flush may be several, but none while a caller is inside a write section
\* or inside Close.
C21_OneLockForAll ==
    /\ Cardinality(Writers \cup Closers) <= 1
    /\ Flushers # {} => Writers \cup Closers = {}
C21_WriterKeepsOtherCategoryOut ==
    \E t, u \in Procs :
        /\ pc[t] = "write" /\ op[t].filename = defaultOutputName /\ op[t].i = 2
        /\ pc[u] = "lock" /\ op[u].filename = defaultErrorName

\* C22: under fair scheduling every operation a caller has begun returns,
\* the lock is always released again (so a Close or a Flush waiting for it
\* gets in), and a tick the rotation goroutine has begun ends.
C22_EveryOperationReturns ==
    /\ \A t \in Procs : (pc[t] # "idle") ~> (pc[t] = "idle")
    /\ (Mutex # Unlocked) ~> (Mutex = Unlocked)
    /\ (tpc = "tick") ~> (tpc # "tick")
C22_CallWaitsForLock ==
    \E t, u \in Procs :
        /\ pc[t] = "lock" /\ pc[u] = "flushing" /\ tpc = "tick"

\* C23: the closed flag is set by Close and by nothing else (Close as a
\* caller's call, or as New's own call when init failed), a Close that
\* finds the logger open sets it, and once set no step of a logging call,
\* Flush, Close or the rotation goroutine resets it.
C23_ClosedIsTerminal ==
    [][/\ IsClose => IsClose'
       /\ (~IsClose /\ IsClose')
             => \/ \E t \in Procs : pc[t] = "closing" /\ pc'[t] = "idle"
                \/ life = "unborn" /\ life' = "failed"
       /\ \A t \in Procs : (pc[t] = "closing" /\ pc'[t] = "idle") => IsClose']_vars
C23_TickRotatesWhileClosed ==
    /\ IsClose /\ life = "open" /\ rot[Timer].stage = "assign"
    /\ \E t \in Procs : last[t].kind = "Flush" /\ last[t].wasClosed

\* C24: a logging call is atomic with respect to Close. While a call is in
\* its write section the logger is not closed and no caller is inside
\* Close; a call that passed the check makes every one of its writes, a call
\* stopped by the check makes none; and in runs in which no tick has closed
\* a file, every write of a call that passed the check landed.
C24_AtomicWithClose ==
    /\ \A t \in Writers : ~IsClose /\ Closers = {}
    /\ \A t \in Procs :
          last[t].kind = "log"
          => /\ last[t].tried = IF last[t].entered
                                THEN Writes(Config, last[t].messages) ELSE 0
             /\ (last[t].entered /\ ticks = 0) => last[t].landed = last[t].tried
C24_OneWrittenOneDropped ==
    \E t, u \in Procs :
        /\ IsClose /\ last[t].kind = "Close" /\ ~last[t].wasClosed
        /\ \E i \in 1..Len(fs.ino) : Len(LinesOf(fs.ino[i].data, t, 1)) = 2
        /\ last[u].kind = "log" /\ ~last[u].entered /\ ~last[u].wasClosed
        /\ Len(last[u].messages) = 2 /\ last[u].tried = 0

\* C25: in structured mode the record of a call carries a level field with
\* the name of the call's level, and it is the last level field of the
\* record: DEBUG, TRACE, INFO, NOTICE, WARN (Warn and WarnError), ERROR,
\* FATAL, CRITICAL.
C25_JsonLevelTag ==
    \A t \in Procs :
        (last[t].kind = "log" /\ last[t].entered /\ Config.Type = "json")
        => LET m == last[t].method
               tag == CASE m = "Debug" -> <<"D", "E", "B", "U", "G">>
                        [] m = "Trace" -> <<"T", "R", "A", "C", "E">>
                        [] m = "Info" -> <<"I", "N", "F", "O">>
                        [] m = "Notice" -> <<"N", "O", "T", "I", "C", "E">>
                        [] m \in {"Warn", "WarnError"} -> <<"W", "A", "R", "N">>
                        [] m = "Error" -> <<"E", "R", "R", "O", "R">>
                        [] m = "Fatal" -> <<"F", "A", "T", "A", "L">>
                        [] m = "Critical" -> <<"C", "R", "I", "T", "I", "C", "A", "L">>
           IN \E i \in 1..Len(fs.ino) :
                 LET ls == LinesOf(fs.ino[i].data, t, last[t].seq)
                     tags == FieldsOf(ls[1].body, <<"l", "e", "v", "e", "l">>)
                 IN Len(ls) = 1 /\ Len(tags) >= 1 /\ tags[Len(tags)] = tag
C25_TraceAndFatalTagged ==
    \E t \in Procs :
        /\ last[t].kind = "log" /\ last[t].entered /\ Config.Type = "json"
        /\ last[t].method = "Fatal" /\ last[t].landed = 1
        /\ Size(fs, fs.dir[ActiveName(defaultDebugName)]) = 1
        /\ fs.ino[fs.dir[ActiveName(defaultDebugName)]].data[1].body[Len(
               fs.ino[fs.dir[ActiveName(defaultDebugName)]].data[1].body)][2]
             = <<"T", "R", "A", "C", "E">>

\* The lines of the active file of a category, and the lines of a console
\* stream that are lines of that file, in stream order.
FileLines(f, filename) ==
    IF Exists(f, ActiveName(filename)) THEN f.ino[f.dir[ActiveName(filename)]].data
    ELSE <<>>
StreamPart(stream, lines) ==
    LET there(x) == \E k \in 1..Len(lines) : lines[k] = x IN SelectSeq(stream, there)

C27_WritesFollowRotation ==
    \A t \in Procs :
        (/\ variant = "precheck" /\ NoFaultYet /\ life = "open"
         /\ last[t].kind = "log" /\ last[t].entered /\ pc[t] = "idle")
        => Len(LinesOf(FileLines(fs, MethodFile(last[t].method)), t, last[t].seq))
              = Writes(Config, last[t].messages)

\* C28: once Close has returned, the logger performs no further file-system
\* action and never modifies the handle set again: no step changes the file
\* system or l.File while the logger is closed and no caller is inside Close.
C28_QuietAfterClose ==
    [][(IsClose /\ life = "open" /\ Closers = {}) => (fs' = fs /\ File' = File)]_vars

\* The descriptors of l.File that are open on inode i.
HandlesOn(f, F, i) == {c \in DOMAIN F : IsOpen(f, F[c]) /\ f.fd[F[c]].ino = i}

\* C29: a rotation follows a fixed order: the handle is closed, then the
\* active file is renamed to the backup name of the current second and the
\* backups are pruned, then a fresh handle is opened, then l.File and the
\* writers are rebound; at the step of the rename the logger holds no open
\* handle on the renamed file.
C29_RotationOrder ==
    [][\A a \in Actors :
          LET c == rot[a].cat
              n == ActiveName(c)
          IN /\ (rot[a].stage = "close" /\ rot'[a] # rot[a])
                => rot'[a].stage = "rotate" /\ ~IsOpen(fs', rot[a].old)
             /\ (rot[a].stage = "rotate" /\ rot'[a].stage = "open")
                => /\ HandlesOn(fs, File, fs.dir[n]) = {}
                   /\ ~Exists(fs', n)
                   /\ File' = File /\ Handler' = Handler
             /\ (rot[a].stage = "open" /\ rot'[a].stage = "assign")
                => /\ IsOpen(fs', rot'[a].new)
                   /\ fs'.fd[rot'[a].new].ino = fs'.dir[n]
                   /\ File' = File /\ Handler' = Handler
             /\ (rot[a].stage = "assign" /\ rot'[a] # rot[a])
                => /\ rot'[a].stage = "none"
                   /\ File'[c] = rot[a].new
                   /\ Handler' = initHandler(File')
             /\ (rot[a].stage = "none" /\ rot'[a] # rot[a])
                => rot'[a].stage = "close"]_vars

\* The inodes that have a name in the directory.
Linked(f) == {f.dir[m] : m \in DOMAIN f.dir}

\* C30: a successful rotation loses no data of the active log: after the
\* step that renames, the backup name of the current second is the file that
\* was the active one, with the records it had before the step; the handle
\* opened next is on an empty file with the active name; and no step removes
\* from the directory a file that has an active name.
C30_RotationKeepsData ==
    [][/\ \A a \in Actors :
            LET c == rot[a].cat
                n == ActiveName(c)
                b == Name(c, Format(now))
            IN /\ (rot[a].stage = "rotate" /\ rot'[a].stage = "open")
                  => /\ Exists(fs', b)
                     /\ fs'.dir[b] = fs.dir[n]
                     /\ fs'.ino[fs.dir[n]].data = fs.ino[fs.dir[n]].data
               /\ (rot[a].stage = "open" /\ rot'[a].stage = "assign")
                  => /\ fs'.dir[n] = fs'.fd[rot'[a].new].ino
                     /\ fs'.ino[fs'.dir[n]].data = <<>>
       /\ \A c \in DOMAIN File :
            Exists(fs, ActiveName(c)) => fs.dir[ActiveName(c)] \in Linked(fs')]_vars

C30_BackupHoldsOldRecords ==
    \E a \in Actors :
        /\ rot[a].stage = "assign" /\ NoFaultYet
        /\ Exists(fs, Name(rot[a].cat, Format(now)))
        /\ Len(fs.ino[fs.dir[Name(rot[a].cat, Format(now))]].data) = 2
        /\ fs.ino[fs.dir[ActiveName(rot[a].cat)]].data = <<>>

\* The step is the size test of the tick's checkAndRotate.
IsTickCheck == tpc = "tick" /\ rot[Timer].stage = "none" /\ <<rot[Timer], timer>>' # <<rot[Timer], timer>>
\* The step is caller t's Lock followed by the size test of checkAndRotate.
IsPreCheck(t) == variant = "precheck" /\ pc[t] = "lock" /\ pc'[t] \in {"write", "rotating"}
\* The size seen through the descriptor l.File holds for c.
StatSize(c) == Size(fs, fs.fd[File[c]].ino)

\* C31: the rotation decision is a strict comparison. At construction an
\* existing file is renamed to a backup exactly when its size is greater
\* than MaxSize, and is otherwise opened as it is; in the later check (of a
\* tick, or before a write) on an open descriptor a rotation is started
\* exactly when the size is greater than MaxSize, and the test itself
\* closes nothing, renames nothing and leaves l.File and the writers alone.
C31_StrictComparison ==
    [][/\ (life = "unborn" /\ life' = "open")
          => \A c \in Cats :
                LET n == ActiveName(c)
                IN Exists(fs, n)
                   => IF Size(fs, fs.dir[n]) > Config'.MaxSize
                      THEN /\ fs'.dir[n] # fs.dir[n]
                           /\ fs'.dir[Name(c, Format(now))] = fs.dir[n]
                      ELSE /\ fs'.dir[n] = fs.dir[n]
                           /\ fs'.ino[fs.dir[n]] = fs.ino[fs.dir[n]]
                           /\ BackupsOf(fs', c) = BackupsOf(fs, c)
       /\ (IsTickCheck /\ IsOpen(fs, File[files[timer.idx]]))
          => /\ rot'[Timer].stage = "close" <=> StatSize(files[timer.idx]) > Config.MaxSize
             /\ fs' = fs /\ File' = File /\ Handler' = Handler
       /\ \A t \in Procs :
             (IsPreCheck(t) /\ IsOpen(fs, File[op[t].filename]))
             => /\ rot'[t].stage = "close" <=> StatSize(op[t].filename) > Config.MaxSize
                /\ pc'[t] = "rotating" <=> rot'[t].stage = "close"
                /\ fs' = fs /\ File' = File /\ Handler' = Handler]_vars

C31_FileAtLimitKept ==
    /\ Size(disk0, 1) = Config.MaxSize /\ life = "open" /\ variant = "precheck"
    /\ ticks = 1 /\ tpc = "select" /\ done[1] = 1 /\ last[1].entered
    /\ fs.dir[ActiveName(defaultOutputName)] = 1
    /\ BackupsOf(fs, defaultOutputName) = {}

\* C32: a rotation in a second in which the category was already rotated
\* computes the backup name that exists; its rename succeeds and replaces
\* that backup: the name now holds the file that was active, the number of
\* backups does not grow, and the records of the replaced backup are in no
\* file of the directory.
C32_SameSecondReplaces ==
    [][\A a \in Actors :
          LET c == rot[a].cat
              n == ActiveName(c)
              b == Name(c, Format(now))
          IN (/\ rot[a].stage = "rotate" /\ rot'[a] # rot[a] /\ faults' = faults
              /\ Exists(fs, n) /\ Exists(fs, b))
             => /\ rot'[a].stage = "open"
                /\ fs'.dir[b] = fs.dir[n]
                /\ fs.dir[b] \notin Linked(fs')
                /\ BackupsOf(fs', c) \subseteq BackupsOf(fs, c)]_vars

C32_FirstBackupReplaced ==
    /\ rot[1].stage = "open" /\ NoFaultYet
    /\ Cardinality(BackupsOf(fs, defaultOutputName)) = 1
    /\ \E i \in 1..Len(fs.ino) : i \notin Linked(fs) /\ fs.ino[i].data # <<>>

\* C33: a Cleanup that returns an error has stopped at the entry it could
\* not delete: with the backups of the path newest first, the entries it
\* deleted are those from index MaxBackup up to the failing one, which is
\* left in place with every entry after it (nothing is deleted when the
\* directory could not be read); and a Cleanup that leaves more than
\* MaxBackup backups returns an error.
C33_PruneStopsAtFailure ==
    \A t \in Procs :
        last[t].kind = "Cleanup"
        => LET b == last[t].before
               bs == {x \in DOMAIN b.dir : BackupPattern(last[t].path, x)}
               sorted == SortNewestFirst(b, bs)
               k == Config.MaxBackup
               Upto(j) == [x \in DOMAIN b.dir \ {sorted[i] : i \in (k + 1)..(j - 1)}
                              |-> b.dir[x]]
           IN /\ last[t].isErr
                 => \/ fs.dir = b.dir
                    \/ \E j \in (k + 1)..Len(sorted) : fs.dir = Upto(j)
              /\ Cardinality(bs \cap DOMAIN fs.dir) > k => last[t].isErr

C33_SecondRemovalFailed ==
    \E t \in Procs :
        LET b == last[t].before
            sorted == SortNewestFirst(b, {x \in DOMAIN b.dir :
                                             BackupPattern(last[t].path, x)})
        IN /\ last[t].kind = "Cleanup" /\ last[t].isErr /\ Config.MaxBackup = 1
           /\ Len(sorted) = 3
           /\ Exists(fs, sorted[1]) /\ ~Exists(fs, sorted[2]) /\ Exists(fs, sorted[3])

\* The step is the return of the tick's checkAndRotate with an error of the
\* rename or of the reopen.
TickRotationFailed == rot[Timer].stage \in {"rotate", "open"} /\ rot'[Timer].stage = "none"
\* After the step the tick goes on with the next file or re-arms the timer.
TickGoesOn ==
    IF timer.idx = Len(files)
    THEN tpc' = "select" /\ timer'.armed /\ stopTimer' = stopTimer
    ELSE tpc' = "tick" /\ timer'.idx = timer.idx + 1

\* C34: a rotation failure in a tick is swallowed: the tick goes on with the
\* remaining categories and re-arms the timer, the logger is not closed, and
\* the descriptor the logger holds for the category is open, so that later
\* writes keep operating on an open file.
C34_TickFailureSwallowed ==
    [][TickRotationFailed
       => /\ TickGoesOn
          /\ IsClose' = IsClose /\ life' = life /\ ~panicked'
          /\ IsOpen(fs', File'[rot[Timer].cat])]_vars

\* The three file names as the characters of the directory entry.
FileChars(filename) ==
    CASE filename = defaultDebugName -> <<"d", "e", "b", "u", "g", ".", "l", "o", "g">>
      [] filename = defaultOutputName -> <<"o", "u", "t", "p", "u", "t", ".", "l", "o", "g">>
      [] filename = defaultErrorName -> <<"e", "r", "r", "o", "r", ".", "l", "o", "g">>
\* file.Name() of a directory entry.
EntryName(n) ==
    IF n.suffix = <<>> THEN FileChars(n.base) ELSE FileChars(n.base) \o <<".">> \o n.suffix
\* backupPattern.MatchString(s) for the pattern built from base.
MatchString(base, s) ==
    LET b == FileChars(base)
        k == Len(b)
    IN /\ Len(s) = k + 16
       /\ SubSeq(s, 1, k) = b
       /\ s[k + 1] = "."
       /\ \A i \in 2..9 : s[k + i] \in Digits
       /\ s[k + 10] = "_"
       /\ \A i \in 11..16 : s[k + i] \in Digits
\* The step prunes the backups of c: a rotation of c (at construction or
\* later) or a call of Cleanup for c.
Prunes(c) ==
    \/ \E a \in Actors : rot[a].stage = "rotate" /\ rot[a].cat = c /\ rot'[a] # rot[a]
    \/ \E t \in Procs : /\ last'[t] # last[t] /\ last'[t].kind = "Cleanup"
                         /\ last'[t].path = c
    \/ /\ life = "unborn" /\ life' # life
       /\ Exists(fs, ActiveName(c))
       /\ Exists(fs', ActiveName(c)) => fs'.dir[ActiveName(c)] # fs.dir[ActiveName(c)]

\* C35: every entry a step takes out of the directory is either the active
\* file of a rotation, which is still there under the backup name of the
\* second, or an entry whose name is <base>.<8 digits>_<6 digits> for the
\* base being pruned; a backup name made by rotate for a base matches the
\* pattern of that base and of no other.
C35_CleanupFrame ==
    [][/\ \A x \in DOMAIN fs.dir \ DOMAIN fs'.dir :
             \/ /\ x.suffix = <<>>
                /\ Exists(fs', Name(x.base, Format(now)))
                /\ fs'.dir[Name(x.base, Format(now))] = fs.dir[x]
             \/ \E c \in Cats : Prunes(c) /\ MatchString(c, EntryName(x))
       /\ \A c, d \in Cats :
             MatchString(d, EntryName(Name(c, Format(now)))) <=> d = c
       /\ \A c \in Cats : \A x \in DOMAIN fs.dir :
             BackupPattern(c, x) <=> MatchString(c, EntryName(x))]_vars

C35_OnlyBackupsPruned ==
    /\ disk0 = PruneDisk /\ NoFaultYet
    /\ last[1].kind = "Cleanup" /\ last[1].path = defaultOutputName /\ done[1] = 1
    /\ Cardinality(BackupsOf(fs, defaultOutputName)) = 2
    /\ ~Exists(fs, Name(defaultOutputName, Format(1)))
    /\ Exists(fs, Name(defaultOutputName, <<"o", "l", "d">>))
    /\ Exists(fs, Name(defaultErrorName, Format(0)))
    /\ Exists(fs, ActiveName(defaultOutputName))

\* s is the beginning of u.
IsPrefix(s, u) == Len(s) <= Len(u) /\ SubSeq(u, 1, Len(s)) = s

\* C36: files are append-only: no step changes, reorders or removes a line
\* that is in a file, whatever name the file has; a step adds at most one
\* line, at the end of one file, and the line is of the caller that holds the
\* lock exclusively: the first line of its record, or the line after the one
\* that ends the file, so that records are in the order of the locks and are
\* not interleaved.
C36_AppendOnly ==
    [][/\ Len(fs.ino) <= Len(fs'.ino)
       /\ \A i \in 1..Len(fs.ino) : IsPrefix(fs.ino[i].data, fs'.ino[i].data)
       /\ \A i, j \in 1..Len(fs'.ino) :
             LET old(k) == IF k <= Len(fs.ino) THEN fs.ino[k].data ELSE <<>>
                 new == fs'.ino[i].data
             IN new # old(i)
                => /\ Len(new) = Len(old(i)) + 1
                   /\ j # i => fs'.ino[j].data = old(j)
                   /\ Last(new).who[1] = Mutex.w
                   /\ \/ Last(new).i = 1
                      \/ /\ old(i) # <<>>
                         /\ Last(old(i)).who = Last(new).who
                         /\ Last(old(i)).i + 1 = Last(new).i]_vars

C36_TwoRecordsInLockOrder ==
    \E i \in 1..Len(fs.ino) :
        /\ Len(fs.ino[i].data) = 4
        /\ fs.ino[i].data[1].who = <<2, 1>> /\ fs.ino[i].data[2].who = <<2, 1>>
        /\ fs.ino[i].data[3].who = <<1, 1>> /\ fs.ino[i].data[4].who = <<1, 1>>
        /\ IsClose /\ ticks = 1

\* C37: the stop channel is closed at most once: it goes from nil to open in
\* New and from open to closed in the one Close that finds the logger not
\* closed, and changes in no other step; no Close panics on a closed
\* channel, and the Close that New makes when init fails finds the channel
\* nil and leaves it nil.
C37_StopClosedOnce ==
    [][/\ stopTimer' # stopTimer
          => \/ stopTimer = "nil" /\ stopTimer' = "open" /\ life = "unborn"
             \/ /\ stopTimer = "open" /\ stopTimer' = "closed"
                /\ ~IsClose /\ IsClose'
                /\ \E t \in Procs : pc[t] = "closing" /\ pc'[t] = "idle"
       /\ (\E t \in Procs : pc[t] = "closing" /\ pc'[t] = "idle")
          => panicked' = panicked /\ (stopTimer = "closed" => stopTimer' = "closed" /\ IsClose)
       /\ (life = "unborn" /\ life' = "failed") => stopTimer' = "nil"]_vars

C37_TwoClosesOneSignal ==
    /\ last[1].kind = "Close" /\ last[2].kind = "Close"
    /\ last[1].signalled /\ ~last[2].signalled /\ last[2].wasClosed
    /\ stopTimer = "closed" /\ ~panicked /\ tpc = "exited"

\* C38: a New that fails leaks nothing: no descriptor is open, the rotation
\* goroutine and its timer were never started, no stop channel was made, and
\* the logger that was built is closed.
C38_FailedNewLeaksNothing ==
    life = "failed"
    => /\ \A h \in 1..Len(fs.fd) : ~fs.fd[h].open
       /\ tpc = "off" /\ ~timer.armed /\ stopTimer = "nil"
       /\ File # <<>> => IsClose

C38_FailedAtThirdFile ==
    /\ life = "failed" /\ IsClose
    /\ DOMAIN File = {defaultDebugName, defaultOutputName}
    /\ Len(fs.fd) = 2 /\ ~fs.fd[1].open /\ ~fs.fd[2].open
    /\ Exists(fs, ActiveName(defaultDebugName))

\* C39: whatever MaxBackup New kept, Cleanup indexes the backup list inside
\* its bounds (it does not panic), and a Cleanup that returned without error
\* leaves at most max(MaxBackup, 0) backups of the base.
C39_CleanupInBounds ==
    /\ ~panicked
    /\ \A t \in Procs :
          (last[t].kind = "Cleanup" /\ ~last[t].isErr)
          => Cardinality({x \in DOMAIN fs.dir : BackupPattern(last[t].path, x)})
                <= (IF Config.MaxBackup < 0 THEN 0 ELSE Config.MaxBackup)

\* The last call of t was one of the four error methods.
ErrorCallOf(l) == l.kind = "log" /\ l.method \in ErrorMethods

\* C40: the error an error method returns depends on its arguments only: two
\* calls given the same parts and the same underlying error return the same
\* text, whether the logger was open or closed and whether their lines were
\* written, dropped or never tried; and the closed flag changes only in New
\* and in Close.
C40_ErrorDependsOnArguments ==
    [][/\ \A t, u \in Procs :
             (/\ ErrorCallOf(last'[t]) /\ ErrorCallOf(last'[u])
              /\ last'[t].parts = last'[u].parts /\ last'[t].err = last'[u].err)
             => last'[t].ret = last'[u].ret /\ ~last'[t].ret.nil
       /\ IsClose' # IsClose
          => life = "unborn" \/ \E t \in Procs : pc[t] = "closing"]_vars

C40_SameErrorOpenAndClosed ==
    \E t, u \in Procs :
        /\ ErrorCallOf(last[t]) /\ ErrorCallOf(last[u])
        /\ last[t].parts = last[u].parts /\ last[t].err = last[u].err
        /\ last[t].entered /\ last[t].landed = 1
        /\ ~last[u].entered /\ last[u].tried = 0 /\ IsClose

====
